---- MODULE Spec2Model ----
(***************************************************************************)
(* Model of section() of the Cross-section add-on (src/__init__.py).       *)
(*                                                                         *)
(* section(context, m, itM, FILL) cuts the mesh m by the plane z = 0 of    *)
(* the frame itM maps into.  It runs three loops in sequence: one over     *)
(* m.edges (the edge classifier), one over m.polygons (the face stitcher)  *)
(* and the final assembly of the section object.                           *)
(*                                                                         *)
(* Numbers.  Coordinates are exact: a mesh coordinate is an integer number *)
(* of length units, the unit being half of EPSILON (so EPSILON == 2), and  *)
(* an intersection point is a rational point <<X, Y, Z, D>> standing for   *)
(* (X/D, Y/D, Z/D), kept in lowest terms with D > 0, so that two points    *)
(* have equal coordinates iff their tuples are equal.  Rounding of the     *)
(* floating point numbers of the program is not modelled.                  *)
(*                                                                         *)
(* Indices.  Vertex indices and point indices are 0-based as in the        *)
(* program; the sequences that hold them are 1-based, so the vertex id is  *)
(* m.co[id + 1] and the point id is verts[id + 1].                         *)
(***************************************************************************)
EXTENDS Integers, Sequences, FiniteSets, TLC

VARIABLES m, itM, FILL, pc, idx, verts, edges, ed_xsect, result

vars == <<m, itM, FILL, pc, idx, verts, edges, ed_xsect, result>>

\* EPSILON = 0.000001, in units of half an EPSILON
EPSILON == 2

\* largest |z| of a mesh vertex, one unit beyond EPSILON
MaxZ == 3
\* half of the side of the cube
CubeHalf == 3

----------------------------------------------------------------------------
(* Arithmetic helpers *)

Abs(x) == IF x < 0 THEN -x ELSE x

RECURSIVE GCD(_, _)
GCD(a, b) == IF b = 0 THEN a ELSE GCD(b, a % b)

\* a rational point in lowest terms
Norm(q) ==
  LET g == GCD(GCD(Abs(q[1]), Abs(q[2])), GCD(Abs(q[3]), q[4]))
  IN  <<q[1] \div g, q[2] \div g, q[3] \div g, q[4] \div g>>

\* the rational point of an integer point
Rat(p) == <<p[1], p[2], p[3], 1>>

\* itM @ co : the matrix itM applied to the point co
MatMul(M, co) ==
  << M.r[1][1] * co[1] + M.r[1][2] * co[2] + M.r[1][3] * co[3] + M.t[1],
     M.r[2][1] * co[1] + M.r[2][2] * co[2] + M.r[2][3] * co[3] + M.t[2],
     M.r[3][1] * co[1] + M.r[3][2] * co[2] + M.r[3][3] * co[3] + M.t[3] >>

----------------------------------------------------------------------------
(* The edge classifier, lines 126-152 *)

\* a key that keeps the order of the two vertices
KeyUnsorted(a, b) == <<a, b>>

\* ed.key : the two vertex indices of an edge, smaller first
Key(a, b) == IF a < b THEN <<a, b>> ELSE <<b, a>>

\* p0 and p1 of the edge e of the mesh
P0(e) == MatMul(itM, m.co[m.edges[e][1] + 1])
P1(e) == MatMul(itM, m.co[m.edges[e][2] + 1])

\* a sign test that sees only the edges going down through the plane
CrossesDown(p0, p1) == (p0[3] > 0) /\ ~(p1[3] > 0)

\* a sign test that wants the two ends strictly on opposite sides
CrossesStrict(p0, p1) == p0[3] * p1[3] < 0

\* (p0.z > 0) != (p1.z > 0)
Crosses(p0, p1) == (p0[3] > 0) # (p1[3] > 0)

\* a distance test that takes EPSILON itself as on the plane
OnPlaneLe(d) == d <= EPSILON

\* d < EPSILON
OnPlane(d) == d < EPSILON

\* an interpolation with t = d1 / (d0 + d1)
InterpFromP1(p0, p1) ==
  LET d0 == Abs(p0[3])
      d1 == Abs(p1[3])
      s  == d0 + d1
  IN  Norm(<< p0[1] * s + (p1[1] - p0[1]) * d1,
              p0[2] * s + (p1[2] - p0[2]) * d1,
              p0[3] * s + (p1[3] - p0[3]) * d1,
              s >>)

\* co = p0 + (p1 - p0) * t  with  t = d0 / (d0 + d1) ; needs d0 + d1 # 0
Interp(p0, p1) ==
  LET d0 == Abs(p0[3])
      d1 == Abs(p1[3])
      s  == d0 + d1
  IN  Norm(<< p0[1] * s + (p1[1] - p0[1]) * d0,
              p0[2] * s + (p1[2] - p0[2]) * d0,
              p0[3] * s + (p1[3] - p0[3]) * d0,
              s >>)

\* ed_xsect[key] = len(verts)
Store(map, key, val) ==
  [k \in (DOMAIN map) \cup {key} |-> IF k = key THEN val ELSE map[k]]

\* a classifier whose last branch appends p0 where p1 is on the plane
ClassifyCopy(p0, p1) ==
  LET d0 == Abs(p0[3])
      d1 == Abs(p1[3])
  IN  IF (p0[3] > 0) # (p1[3] > 0)
      THEN IF d0 + d1 = 0 THEN [kind |-> "raise", co |-> Rat(p0)]
                          ELSE [kind |-> "point", co |-> Interp(p0, p1)]
      ELSE IF d0 < EPSILON THEN [kind |-> "point", co |-> Rat(p0)]
      ELSE IF d1 < EPSILON THEN [kind |-> "point", co |-> Rat(p0)]
      ELSE [kind |-> "none", co |-> Rat(p0)]

\* the outcome of one iteration of the loop over m.edges:
\* "raise" (ZeroDivisionError), "none" (no branch taken) or the point appended
Classify(p0, p1) ==
  LET d0 == Abs(p0[3])
      d1 == Abs(p1[3])
  IN  IF Crosses(p0, p1)
      THEN IF d0 + d1 = 0 THEN [kind |-> "raise", co |-> Rat(p0)]
                          ELSE [kind |-> "point", co |-> Interp(p0, p1)]
      ELSE IF OnPlane(d0) THEN [kind |-> "point", co |-> Rat(p0)]
      ELSE IF OnPlane(d1) THEN [kind |-> "point", co |-> Rat(p1)]
      ELSE [kind |-> "none", co |-> Rat(p0)]

ClassifyEdge ==
  /\ pc = "edges"
  /\ LET c   == Classify(P0(idx), P1(idx))
         key == Key(m.edges[idx][1], m.edges[idx][2])
     IN  IF c.kind = "raise"
         THEN /\ pc' = "raised"
              /\ UNCHANGED <<idx, verts, ed_xsect>>
         ELSE /\ IF c.kind = "point"
                 THEN /\ ed_xsect' = Store(ed_xsect, key, Len(verts))
                      /\ verts' = Append(verts, c.co)
                 ELSE UNCHANGED <<verts, ed_xsect>>
              /\ IF idx = Len(m.edges)
                 THEN pc' = "polygons" /\ idx' = 1
                 ELSE pc' = "edges" /\ idx' = idx + 1
  /\ UNCHANGED <<m, itM, FILL, edges, result>>

----------------------------------------------------------------------------
(* The face stitcher, lines 154-168 *)

\* p.edge_keys : the keys of the edges of a polygon, in loop order
EdgeKeys(p) ==
  [j \in 1..Len(p) |-> Key(p[j], p[(j % Len(p)) + 1])]

RECURSIVE SelectIds(_, _)
\* [map[key] for key in keys if key in map]
SelectIds(keys, map) ==
  IF keys = <<>> THEN <<>>
  ELSE LET rest == SelectIds(Tail(keys), map)
       IN  IF Head(keys) \in DOMAIN map
           THEN <<map[Head(keys)]>> \o rest
           ELSE rest

RECURSIVE UniqueFrom(_, _, _)
\* the values of {tuple(vs[id]): id for id in ps}: one id per coordinate, in the
\* order the coordinates first occur, each the last id of ps with that coordinate
UniqueFrom(ps, j, vs) ==
  IF j > Len(ps) THEN <<>>
  ELSE LET c     == vs[ps[j] + 1]
           first == \A k \in 1..(j - 1) : vs[ps[k] + 1] # c
           last  == CHOOSE k \in j..Len(ps) :
                      /\ vs[ps[k] + 1] = c
                      /\ \A l \in (k + 1)..Len(ps) : vs[ps[l] + 1] # c
       IN  IF first THEN <<ps[last]>> \o UniqueFrom(ps, j + 1, vs)
                    ELSE UniqueFrom(ps, j + 1, vs)

Unique(ps, vs) == UniqueFrom(ps, 1, vs)

\* a stitcher that joins whenever at least two coordinates remain
StitchAtLeastTwo(ps, vs) ==
  LET s == Len(ps)
  IN  IF s = 2 THEN << <<ps[1], ps[2]>> >>
      ELSE IF s > 2
           THEN LET unique == Unique(ps, vs)
                IN  IF Len(unique) >= 2 THEN << <<unique[1], unique[2]>> >>
                                        ELSE <<>>
           ELSE <<>>

\* a stitcher that joins the first point of a pair to itself
StitchSelf(ps, vs) ==
  LET s == Len(ps)
  IN  IF s = 2 THEN << <<ps[1], ps[1]>> >>
      ELSE IF s > 2
           THEN LET unique == Unique(ps, vs)
                IN  IF Len(unique) = 2 THEN << <<unique[1], unique[2]>> >>
                                       ELSE <<>>
           ELSE <<>>

\* the edges one polygon appends to the edge list
Stitch(ps, vs) ==
  LET s == Len(ps)
  IN  IF s = 2 THEN << <<ps[1], ps[2]>> >>
      ELSE IF s > 2
           THEN LET unique == Unique(ps, vs)
                IN  IF Len(unique) = 2 THEN << <<unique[1], unique[2]>> >>
                                       ELSE <<>>
           ELSE <<>>

StitchPolygon ==
  /\ pc = "polygons"
  /\ LET ps == SelectIds(EdgeKeys(m.polygons[idx]), ed_xsect)
     IN  edges' = edges \o Stitch(ps, verts)
  /\ IF idx = Len(m.polygons)
     THEN pc' = "assemble" /\ idx' = 1
     ELSE pc' = "polygons" /\ idx' = idx + 1
  /\ UNCHANGED <<m, itM, FILL, verts, ed_xsect, result>>

----------------------------------------------------------------------------
(* The section assembler, lines 170-205 *)

RECURSIVE Distinct(_)
\* the distinct values of a sequence, in the order they first occur
Distinct(sq) ==
  IF sq = <<>> THEN <<>>
  ELSE LET front == Distinct(SubSeq(sq, 1, Len(sq) - 1))
           x     == sq[Len(sq)]
       IN  IF \E k \in 1..Len(front) : front[k] = x THEN front
                                                    ELSE Append(front, x)

\* the 0-based index of a value in a sequence that holds it
IndexOf(sq, x) == (CHOOSE k \in 1..Len(sq) : sq[k] = x) - 1

\* bpy.ops.mesh.remove_doubles() : vertices of equal coordinates become one
\* vertex, the edges follow, and an edge whose two ends became one vertex
\* is dropped
Weld(vs, es) ==
  LET wv == Distinct(vs)
      we == { {IndexOf(wv, vs[es[k][1] + 1]), IndexOf(wv, vs[es[k][2] + 1])} :
                k \in 1..Len(es) }
  IN  [verts |-> wv, edges |-> {e \in we : Cardinality(e) = 2}]

\* the edges of es that end in the vertex v
Incident(v, es) == {e \in es : v \in e}

RECURSIVE Reach(_, _)
\* the vertices connected to the set S by the edges es
Reach(S, es) ==
  LET T == S \cup UNION {e \in es : e \cap S # {}}
  IN  IF T = S THEN S ELSE Reach(T, es)

\* the closed loops of a set of edges: the connected components all of whose
\* vertices have exactly two incident edges, each as its set of vertices
Loops(es) ==
  LET vs == UNION es
  IN  { c \in {Reach({v}, es) : v \in vs} :
          \A v \in c : Cardinality(Incident(v, es)) = 2 }

\* bpy.ops.mesh.edge_face_add() : one face for every closed loop
Fill(es) == Loops(es)

Pending == [kind |-> "pending", verts |-> <<>>, edges |-> {}, faces |-> {}]
NoIntersection == [kind |-> "False", verts |-> <<>>, edges |-> {}, faces |-> {}]

\* if edges: build the object, remove doubles, fill, return o
ReturnSection ==
  /\ pc = "assemble"
  /\ edges # <<>>
  /\ LET w == Weld(verts, edges)
     IN  result' = [kind  |-> "Section",
                    verts |-> w.verts,
                    edges |-> w.edges,
                    faces |-> IF FILL THEN Fill(w.edges) ELSE {}]
  /\ pc' = "done"
  /\ UNCHANGED <<m, itM, FILL, idx, verts, edges, ed_xsect>>

\* else: return False
ReturnFalse ==
  /\ pc = "assemble"
  /\ edges = <<>>
  /\ result' = NoIntersection
  /\ pc' = "done"
  /\ UNCHANGED <<m, itM, FILL, idx, verts, edges, ed_xsect>>

Next == ClassifyEdge \/ StitchPolygon \/ ReturnSection \/ ReturnFalse

----------------------------------------------------------------------------
(* Input meshes and transforms *)

\* the z coordinates a mesh vertex is given
ZVals == (-MaxZ)..MaxZ
\* z coordinates clear of the plane on either side, and on it
ZFar == {-MaxZ, 0, MaxZ}

Identity ==
  [r |-> << <<1, 0, 0>>, <<0, 1, 0>>, <<0, 0, 1>> >>, t |-> <<0, 0, 0>>]
\* a shift along z
ShiftZ(k) ==
  [r |-> << <<1, 0, 0>>, <<0, 1, 0>>, <<0, 0, 1>> >>, t |-> <<0, 0, k>>]
\* a quarter turn about the y axis: z becomes x
TurnY ==
  [r |-> << <<0, 0, -1>>, <<0, 1, 0>>, <<1, 0, 0>> >>, t |-> <<0, 0, 0>>]
\* a half turn about the x axis: the two sides of the plane change places
FlipZ ==
  [r |-> << <<1, 0, 0>>, <<0, -1, 0>>, <<0, 0, -1>> >>, t |-> <<0, 0, 0>>]

\* a cube of side 2 * CubeHalf centred on the origin: vertex 4a + 2b + c
CubeCo ==
  [n \in 1..8 |->
     << IF (n - 1) \div 4 = 1 THEN CubeHalf ELSE -CubeHalf,
        IF ((n - 1) \div 2) % 2 = 1 THEN CubeHalf ELSE -CubeHalf,
        IF (n - 1) % 2 = 1 THEN CubeHalf ELSE -CubeHalf >>]

Cube ==
  [co       |-> CubeCo,
   edges    |-> << <<0, 2>>, <<2, 6>>, <<6, 4>>, <<4, 0>>,
                   <<1, 3>>, <<3, 7>>, <<7, 5>>, <<5, 1>>,
                   <<0, 1>>, <<2, 3>>, <<6, 7>>, <<4, 5>> >>,
   polygons |-> << <<0, 2, 6, 4>>, <<1, 5, 7, 3>>,
                   <<0, 1, 3, 2>>, <<2, 3, 7, 6>>,
                   <<6, 7, 5, 4>>, <<4, 5, 1, 0>> >>]

\* the x and y of the vertices of the generated meshes: all different
XY == << <<0, 0>>, <<4, 0>>, <<0, 4>>, <<4, 4>>,
         <<9, 1>>, <<13, 1>>, <<9, 5>>, <<13, 5>> >>

\* the vertices of a mesh with the z coordinates zs
CoOf(zs) == [n \in 1..Len(zs) |-> <<XY[n][1], XY[n][2], zs[n]>>]

\* the edge list es with the two vertices of the edges in fl changed over
Flip(es, fl) ==
  [k \in 1..Len(es) |-> IF k \in fl THEN <<es[k][2], es[k][1]>> ELSE es[k]]

TriEdges == << <<0, 1>>, <<1, 2>>, <<0, 2>> >>
TetEdges == << <<0, 1>>, <<0, 2>>, <<0, 3>>, <<1, 2>>, <<1, 3>>, <<2, 3>> >>
TetFaces == << <<0, 1, 2>>, <<0, 3, 1>>, <<0, 2, 3>>, <<1, 3, 2>> >>

\* a sequence of vertex indices, or of sequences of them, moved up by k
Shift1(sq, k) == [j \in 1..Len(sq) |-> sq[j] + k]
Shift2(sqs, k) == [j \in 1..Len(sqs) |-> Shift1(sqs[j], k)]

\* one triangle, every z and every order of the vertices within the edges
Triangles ==
  { [co |-> CoOf(zs), edges |-> Flip(TriEdges, fl), polygons |-> << <<0, 1, 2>> >>] :
      zs \in [1..3 -> ZVals], fl \in SUBSET (1..3) }

\* a tetrahedron, every z, the edges as stored or all changed over
Tetrahedra ==
  { [co |-> CoOf(zs), edges |-> Flip(TetEdges, fl), polygons |-> TetFaces] :
      zs \in [1..4 -> ZVals], fl \in {{}, 1..6} }

\* two triangles with no vertex in common
TwoTriangles ==
  { [co |-> CoOf(zs), edges |-> TriEdges \o Shift2(TriEdges, 3),
     polygons |-> << <<0, 1, 2>>, <<3, 4, 5>> >>] :
      zs \in [1..6 -> ZFar] }

\* two tetrahedra with no vertex in common
TwoTetrahedra ==
  { [co |-> CoOf(zs), edges |-> TetEdges \o Shift2(TetEdges, 4),
     polygons |-> TetFaces \o Shift2(TetFaces, 4)] :
      zs \in [1..8 -> ZFar] }

\* an octahedron: vertices 0..3 round the middle, 4 and 5 the two tips
OctEdges == << <<0, 1>>, <<1, 2>>, <<2, 3>>, <<3, 0>>,
               <<0, 4>>, <<1, 4>>, <<2, 4>>, <<3, 4>>,
               <<0, 5>>, <<1, 5>>, <<2, 5>>, <<3, 5>> >>
OctFaces == << <<0, 1, 4>>, <<1, 2, 4>>, <<2, 3, 4>>, <<3, 0, 4>>,
               <<1, 0, 5>>, <<2, 1, 5>>, <<3, 2, 5>>, <<0, 3, 5>> >>
Octahedra ==
  { [co |-> CoOf(zs), edges |-> OctEdges, polygons |-> OctFaces] :
      zs \in [1..6 -> ZFar] }

Start(M, T) ==
  /\ m \in M
  /\ itM \in T
  /\ FILL \in BOOLEAN
  /\ pc = "edges"
  /\ idx = 1
  /\ verts = <<>>
  /\ edges = <<>>
  /\ ed_xsect = [k \in {} |-> 0]
  /\ result = Pending

\* the cube under every transform
InitCube ==
  Start({Cube}, {Identity, TurnY, FlipZ} \cup
                {ShiftZ(k) : k \in (-(CubeHalf + EPSILON))..(CubeHalf + EPSILON)})
SpecCube == InitCube /\ [][Next]_vars

\* single triangles
InitTri == Start(Triangles, {Identity, FlipZ})
SpecTri == InitTri /\ [][Next]_vars

\* closed meshes and meshes of two islands
InitSolid == Start(Tetrahedra \cup Octahedra \cup TwoTriangles \cup TwoTetrahedra,
                   {Identity})
SpecSolid == InitSolid /\ [][Next]_vars

\* the cube and the triangles under three transforms, the tetrahedra with
\* their edges as stored under the identity
Init ==
  \/ Start({Cube} \cup Triangles, {Identity, TurnY, ShiftZ(1)})
  \/ Start({t \in Tetrahedra : t.edges = TetEdges}, {Identity})
Spec == Init /\ [][Next]_vars

----------------------------------------------------------------------------
(* What the properties below speak of *)

\* the z of the vertex v (0-based) in the frame of the plane
Tz(v) == MatMul(itM, m.co[v + 1])[3]

VertexIds == 0..(Len(m.co) - 1)

\* the loop over m.edges has dealt with the edge e
EdgeSeen(e) ==
  \/ pc \in {"polygons", "assemble", "done"}
  \/ pc \in {"edges", "raised"} /\ e < idx

Classified == pc \in {"polygons", "assemble", "done"}
Stitched == pc \in {"assemble", "done"}

\* the key of the mesh edge e, written out
KeyOfEdge(e) ==
  LET a == m.edges[e][1]
      b == m.edges[e][2]
  IN  IF a < b THEN <<a, b>> ELSE <<b, a>>

\* the point stored for the mesh edge e
PointOf(e) == verts[ed_xsect[KeyOfEdge(e)] + 1]

\* the rational point q lies at parameter n/d between the integer points a, b
AtParam(q, a, b, n, d) ==
  \A c \in 1..3 : q[c] * d = q[4] * (a[c] * d + (b[c] - a[c]) * n)

\* the number of edges of the edge list that end in the point i
Degree(i) ==
  Cardinality({k \in 1..Len(edges) : edges[k][1] = i \/ edges[k][2] = i})

\* the edge list as a set of two-point sets
EdgeSets == {{edges[k][1], edges[k][2]} : k \in 1..Len(edges)}

\* all vertices at EPSILON or more from the plane, on one side of it
AllOneSide ==
  \/ \A v \in VertexIds : Tz(v) >= EPSILON
  \/ \A v \in VertexIds : Tz(v) <= -EPSILON

----------------------------------------------------------------------------
\* C1: when all transformed vertices lie on one side of the plane with
\* |z| >= EPSILON, section() creates no point, emits no edge, builds no mesh
\* and returns False; and section() returns False exactly when the edge list
\* is empty.
C1_NoIntersection ==
  /\ AllOneSide =>
       /\ verts = <<>>
       /\ edges = <<>>
       /\ DOMAIN ed_xsect = {}
       /\ result.kind # "Section"
       /\ pc = "done" => result = NoIntersection
  /\ pc = "done" => ((result = NoIntersection) <=> (edges = <<>>))
  /\ pc = "done" => result.kind \in {"False", "Section"}

C1_Witness == pc = "done" /\ AllOneSide /\ result = NoIntersection

----------------------------------------------------------------------------
\* the polygon p of the cube has vertices on both sides of the plane
IsSideFace(p) ==
  /\ \E j \in 1..Len(p) : Tz(p[j]) > 0
  /\ \E j \in 1..Len(p) : Tz(p[j]) < 0

\* the mesh edges of the cube that run from z < 0 to z > 0
VerticalEdges ==
  {e \in 1..Len(m.edges) : Tz(m.edges[e][1]) * Tz(m.edges[e][2]) < 0}

CubeCase == m = Cube /\ itM = Identity

\* C2: for the cube centred on the plane with the identity transform,
\* exactly the 4 vertical edges are classified, giving 4 points with z = 0;
\* the stitcher emits 4 edges, one per side face and none for top and
\* bottom, that form one closed loop in which every point has two incident
\* edges; with fill the loop yields exactly one quad face.
C2_CubeSection ==
  CubeCase =>
    /\ pc # "raised"
    /\ Classified =>
         /\ Cardinality(VerticalEdges) = 4
         /\ DOMAIN ed_xsect = {KeyOfEdge(e) : e \in VerticalEdges}
         /\ Len(verts) = 4
         /\ \A i \in 1..4 : verts[i][3] = 0
         /\ \A i, j \in 1..4 : i # j => verts[i] # verts[j]
    /\ pc = "polygons" =>
         Len(edges) = Cardinality({j \in 1..(idx - 1) : IsSideFace(m.polygons[j])})
    /\ Stitched =>
         /\ Len(edges) = 4
         /\ Cardinality({j \in 1..Len(m.polygons) : IsSideFace(m.polygons[j])}) = 4
         /\ \A i \in 0..3 : Degree(i) = 2
         /\ \A k \in 1..4 : edges[k][1] # edges[k][2]
         /\ Reach({0}, EdgeSets) = 0..3
    /\ pc = "done" =>
         /\ result.kind = "Section"
         /\ Len(result.verts) = 4
         /\ Cardinality(result.edges) = 4
         /\ FILL => result.faces = {0..3}
         /\ ~FILL => result.faces = {}

C2_Witness == CubeCase /\ pc = "done" /\ FILL /\ Cardinality(result.faces) = 1

----------------------------------------------------------------------------
\* the sign test of the first branch, on the edge e
SignsDiffer(e) == (P0(e)[3] > 0) # (P1(e)[3] > 0)

\* C3: for every edge with (p0.z > 0) != (p1.z > 0), d0 + d1 is not 0,
\* t = d0 / (d0 + d1) lies in 0..1, and the point emitted is
\* p0 + (p1 - p0) * t, whose z is exactly 0.
C3_Interpolation ==
  /\ pc # "raised"
  /\ \A e \in 1..Len(m.edges) :
       SignsDiffer(e) =>
         LET z0 == P0(e)[3]
             z1 == P1(e)[3]
             d0 == IF z0 < 0 THEN -z0 ELSE z0
             d1 == IF z1 < 0 THEN -z1 ELSE z1
         IN  /\ d0 + d1 # 0
             /\ 0 <= d0 /\ d0 <= d0 + d1
             /\ EdgeSeen(e) =>
                  /\ KeyOfEdge(e) \in DOMAIN ed_xsect
                  /\ PointOf(e)[4] > 0
                  /\ PointOf(e)[3] = 0
                  /\ AtParam(PointOf(e), P0(e), P1(e), d0, d0 + d1)

C3_Witness ==
  \E e \in 1..Len(m.edges) :
    /\ EdgeSeen(e)
    /\ P0(e)[3] = MaxZ
    /\ P1(e)[3] = -1
    /\ PointOf(e)[3] = 0

----------------------------------------------------------------------------
\* the edge e has one end on the plane (z = 0) and the other at EPSILON or
\* more from it; OnEnd is the end on the plane
OneOnOneOff(e) ==
  \/ P0(e)[3] = 0 /\ (P1(e)[3] >= EPSILON \/ P1(e)[3] <= -EPSILON)
  \/ P1(e)[3] = 0 /\ (P0(e)[3] >= EPSILON \/ P0(e)[3] <= -EPSILON)

OnEnd(e) == IF P0(e)[3] = 0 THEN P0(e) ELSE P1(e)

\* C4: for an edge with one end exactly on the plane and the other off it
\* (|z| >= EPSILON, either side, either order of the two ends), the
\* classifier emits exactly one point, the on-plane end unchanged.
C4_VertexOnPlane ==
  [][(pc = "edges" /\ OneOnOneOff(idx)) =>
       /\ pc' # "raised"
       /\ Len(verts') = Len(verts) + 1
       /\ SubSeq(verts', 1, Len(verts)) = verts
       /\ verts'[Len(verts')] = <<OnEnd(idx)[1], OnEnd(idx)[2], OnEnd(idx)[3], 1>>
       /\ KeyOfEdge(idx) \in DOMAIN ed_xsect'
       /\ ed_xsect'[KeyOfEdge(idx)] = Len(verts)]_vars

\* the four cases have been through the classifier: the end on the plane
\* first or second, the other end above or below
C4_Witness ==
  /\ \E e \in 1..Len(m.edges) :
       EdgeSeen(e) /\ P0(e)[3] >= EPSILON /\ P1(e)[3] = 0
                   /\ PointOf(e) = <<P1(e)[1], P1(e)[2], 0, 1>>
  /\ \E e \in 1..Len(m.edges) :
       EdgeSeen(e) /\ P0(e)[3] = 0 /\ P1(e)[3] <= -EPSILON
                   /\ PointOf(e) = <<P0(e)[1], P0(e)[2], 0, 1>>

----------------------------------------------------------------------------
(* Islands and closed meshes *)

\* the mesh edges as two-vertex sets
MeshEdgeSets == {{m.edges[e][1], m.edges[e][2]} : e \in 1..Len(m.edges)}

\* the island of the vertex v : the vertices its edges lead to
Island(v) == Reach({v}, MeshEdgeSets)

Islands == {Island(v) : v \in VertexIds}

\* the vertices of the polygon j
PolyVerts(j) == {m.polygons[j][k] : k \in 1..Len(m.polygons[j])}

\* every polygon is a triangle whose sides are mesh edges, and every mesh
\* edge is a side of exactly two triangles
ClosedTriMesh ==
  /\ \A j \in 1..Len(m.polygons) :
       /\ Len(m.polygons[j]) = 3
       /\ Cardinality(PolyVerts(j)) = 3
       /\ \A a, b \in PolyVerts(j) : a # b => {a, b} \in MeshEdgeSets
  /\ \A e \in MeshEdgeSets :
       Cardinality({j \in 1..Len(m.polygons) : e \subseteq PolyVerts(j)}) = 2

\* no transformed vertex within EPSILON of the plane
NoVertexNear == \A v \in VertexIds : Tz(v) >= EPSILON \/ Tz(v) <= -EPSILON

\* the plane crosses the set of vertices S : it has vertices on both sides
CrossedBy(S) == (\E v \in S : Tz(v) > 0) /\ (\E v \in S : Tz(v) < 0)

TwoIslandsCrossed ==
  /\ Cardinality(Islands) = 2
  /\ \A S \in Islands : CrossedBy(S)

\* the island of the mesh edge that the point i was stored for
IslandOfPoint(i) ==
  LET k == CHOOSE k \in DOMAIN ed_xsect : ed_xsect[k] = i
  IN  Island(k[1])

PointIds == 0..(Len(verts) - 1)

\* the edge list is made of closed loops: every point ends two edges and no
\* edge joins a point to itself
ClosedLoops ==
  /\ \A i \in PointIds : Degree(i) = 2
  /\ \A k \in 1..Len(edges) : edges[k][1] # edges[k][2]
  /\ \A k \in 1..Len(edges) : edges[k][1] \in PointIds /\ edges[k][2] \in PointIds

\* no edge joins points of two islands
NoEdgeAcross ==
  \A k \in 1..Len(edges) : IslandOfPoint(edges[k][1]) = IslandOfPoint(edges[k][2])

\* the number of cycles of the edge list
Cycles == Cardinality(Loops(EdgeSets))

IslandsAreTetrahedra == \A S \in Islands : Cardinality(S) = 4

----------------------------------------------------------------------------
\* the mesh is one triangle, all of whose vertices are within EPSILON of
\* the plane
CoplanarTriangle ==
  /\ Len(m.polygons) = 1
  /\ Len(m.polygons[1]) = 3
  /\ \A v \in VertexIds : Tz(v) < EPSILON /\ Tz(v) > -EPSILON

\* C6: for a triangle whose three vertices are all within EPSILON of the
\* plane, section() does not raise, emits at most 3 points and at most 1
\* edge, and never emits an edge joining two points of different
\* coordinates.
C6_CoplanarTriangle ==
  CoplanarTriangle =>
    /\ pc # "raised"
    /\ Len(verts) <= 3
    /\ Len(edges) <= 1
    /\ \A k \in 1..Len(edges) : verts[edges[k][1] + 1] = verts[edges[k][2] + 1]

----------------------------------------------------------------------------
\* both ends of the edge e are within EPSILON of the plane
BothNear(e) ==
  /\ P0(e)[3] < EPSILON /\ P0(e)[3] > -EPSILON
  /\ P1(e)[3] < EPSILON /\ P1(e)[3] > -EPSILON

\* C7, as claimed: for every edge with both ends within EPSILON of the
\* plane the sign test is false and the one point emitted is p0.
C7_CoplanarEdge ==
  [][(pc = "edges" /\ BothNear(idx)) =>
       /\ ~SignsDiffer(idx)
       /\ Len(verts') = Len(verts) + 1
       /\ verts'[Len(verts')] = <<P0(idx)[1], P0(idx)[2], P0(idx)[3], 1>>]_vars

\* C7, amended: for every edge with both ends within EPSILON of the plane
\* exactly one point is emitted: p0 when (p0.z > 0) = (p1.z > 0), and the
\* interpolated point p0 + (p1 - p0) * d0 / (d0 + d1), of z = 0, when
\* (p0.z > 0) != (p1.z > 0).
C7_CoplanarEdgeBySign ==
  [][(pc = "edges" /\ BothNear(idx)) =>
       LET z0 == P0(idx)[3]
           z1 == P1(idx)[3]
           d0 == IF z0 < 0 THEN -z0 ELSE z0
           d1 == IF z1 < 0 THEN -z1 ELSE z1
           q  == verts'[Len(verts')]
       IN  /\ pc' # "raised"
           /\ Len(verts') = Len(verts) + 1
           /\ ed_xsect'[KeyOfEdge(idx)] = Len(verts)
           /\ (z0 > 0) = (z1 > 0) => q = <<P0(idx)[1], P0(idx)[2], z0, 1>>
           /\ (z0 > 0) # (z1 > 0) =>
                /\ q[3] = 0
                /\ q[4] > 0
                /\ AtParam(q, P0(idx), P1(idx), d0, d0 + d1)]_vars

\* both kinds of edge have been through the classifier
C7_Witness ==
  /\ \E e \in 1..Len(m.edges) :
       /\ EdgeSeen(e) /\ BothNear(e) /\ SignsDiffer(e)
       /\ PointOf(e) # <<P0(e)[1], P0(e)[2], P0(e)[3], 1>>
       /\ PointOf(e) # <<P1(e)[1], P1(e)[2], P1(e)[3], 1>>
  /\ \E e \in 1..Len(m.edges) :
       /\ EdgeSeen(e) /\ BothNear(e) /\ ~SignsDiffer(e)
       /\ PointOf(e) = <<P0(e)[1], P0(e)[2], P0(e)[3], 1>>

----------------------------------------------------------------------------
\* the point indices of the classified edges of the polygon j, in the order
\* of the polygon's edges
PsOf(j) == SelectIds(EdgeKeys(m.polygons[j]), ed_xsect)

\* the coordinates of the points of ps
CoordsOf(ps) == {verts[ps[k] + 1] : k \in 1..Len(ps)}

\* C8: the stitcher emits at most one edge per polygon: (ps[0], ps[1]) when
\* |ps| = 2; when |ps| > 2 one edge iff the points of ps have exactly 2
\* distinct coordinates, joining one index of each; nothing when |ps| < 2 or
\* the number of distinct coordinates is not 2.  Every emitted edge refers
\* to valid indices of the point list.
C8_OneEdgePerPolygon ==
  [][pc = "polygons" =>
       LET ps  == PsOf(idx)
           new == SubSeq(edges', Len(edges) + 1, Len(edges'))
       IN  /\ Len(edges') >= Len(edges)
           /\ SubSeq(edges', 1, Len(edges)) = edges
           /\ verts' = verts
           /\ Len(new) <= 1
           /\ Len(ps) < 2 => new = <<>>
           /\ Len(ps) = 2 => new = << <<ps[1], ps[2]>> >>
           /\ Len(ps) > 2 =>
                /\ (Len(new) = 1) <=> (Cardinality(CoordsOf(ps)) = 2)
                /\ Len(new) = 1 =>
                     /\ \E a, b \in 1..Len(ps) : new[1] = <<ps[a], ps[b]>>
                     /\ verts[new[1][1] + 1] # verts[new[1][2] + 1]
           /\ \A k \in 1..Len(new) :
                /\ new[k][1] \in PointIds
                /\ new[k][2] \in PointIds]_vars

\* a polygon with three classified edges of two coordinates has given an
\* edge, and one with three coordinates has given none
C8_Witness ==
  /\ pc = "done"
  /\ Len(m.polygons) = 4
  /\ \E j \in 1..4 : Len(PsOf(j)) = 3 /\ Cardinality(CoordsOf(PsOf(j))) = 2
  /\ \E j \in 1..4 : Len(PsOf(j)) = 3 /\ Cardinality(CoordsOf(PsOf(j))) = 3
  /\ Len(edges) >= 1
  /\ Len(edges) < 4

----------------------------------------------------------------------------
\* C9: whenever section() returns a section mesh, every edge the stitcher
\* emitted joins two points of different coordinates, so the mesh returned
\* after welding still has an edge.
C9_RealSection ==
  (pc = "done" /\ result.kind = "Section") =>
    /\ \A k \in 1..Len(edges) : verts[edges[k][1] + 1] # verts[edges[k][2] + 1]
    /\ result.edges # {}

----------------------------------------------------------------------------
\* the number of classified edges of the polygon j
ClassifiedSides(j) ==
  Cardinality({e \in 1..Len(m.edges) :
                 /\ {m.edges[e][1], m.edges[e][2]} \subseteq PolyVerts(j)
                 /\ KeyOfEdge(e) \in DOMAIN ed_xsect})

\* C10: for a closed triangle mesh none of whose transformed vertices is
\* within EPSILON of the plane, every triangle has 0 or exactly 2 classified
\* edges, and after stitching every intersection point has exactly two
\* incident edges: the edges are a disjoint union of closed loops.
C10_ClosedMesh ==
  (NoVertexNear /\ ClosedTriMesh) =>
    /\ pc # "raised"
    /\ Classified =>
         /\ \A j \in 1..Len(m.polygons) : ClassifiedSides(j) \in {0, 2}
         /\ Len(verts) = Cardinality(DOMAIN ed_xsect)
    /\ Stitched =>
         /\ ClosedLoops
         /\ UNION Loops(EdgeSets) = PointIds

C10_Witness ==
  /\ pc = "done" /\ NoVertexNear /\ ClosedTriMesh
  /\ Len(m.co) = 6
  /\ Len(edges) = 6
  /\ Cycles = 1

====
